---- MODULE Spec2Model ----
(***************************************************************************)
(* Model of the SP expression front end: Tokenizer::Tokenize, Parse,       *)
(* simpleParse, Node::toString and Node::evaluate.                         *)
(*                                                                         *)
(* Text is a sequence of one-character strings.  Iterators are 0-based     *)
(* offsets from begin(), so the token at offset i is tokens[i + 1].        *)
(* A double/float is a pair <<n, d>>: a reduced fraction n/d with d > 0,   *)
(* or one of the IEEE specials below (rounding to 24/53 bits is not        *)
(* modelled: every value is kept exactly).                                 *)
(***************************************************************************)
EXTENDS Integers, Sequences, FiniteSets, TLC

VARIABLES
  loc,                    \* Tokenize: the source text
  curr,                   \* Tokenize: offset of the scan cursor in loc
  lexemes,                \* history: <<first, last+1>> offsets of each lexeme emitted
  tokens,                 \* the token vector (Tokenize's output, Parse's input)
  lastFirstPriorityPos,   \* Parse: offset of the last '*' or '/' handled (0 at start)
  currentState,           \* Parse: the tree built so far (NullNode = nullptr)
  currentOper,            \* Parse: pending operator (NoOper = empty optional)
  derefs,                 \* history: offsets Parse itself dereferenced
  ranges,                 \* history: <<begin, end>> iterator ranges Parse passed on
  pc,                     \* "tokenize", "parse" or "done"
  result                  \* [status, node]: how the call ended

vars == <<loc, curr, lexemes, tokens, lastFirstPriorityPos, currentState,
          currentOper, derefs, ranges, pc, result>>

(***************************************************************************)
(* Bounds                                                                  *)
(***************************************************************************)
MaxLen == 4        \* longest arbitrary token vector given to Parse
MaxOps == 3        \* most operators in a generated well-formed expression
MaxSrcLen == 3     \* longest generated source text given to Tokenize

Abs(x) == IF x < 0 THEN -x ELSE x
Min(a, b) == IF a < b THEN a ELSE b

RECURSIVE GCD(_, _)
GCD(a, b) == IF b = 0 THEN a ELSE GCD(b, a % b)

(***************************************************************************)
(* Floating point values                                                   *)
(***************************************************************************)
PosZero == <<0, 1>>
NegZero == <<0, -1>>
PosInf == <<1, 0>>
NegInf == <<-1, 0>>
NaN == <<0, 0>>

IsNaN(a) == a = NaN
IsInf(a) == a[2] = 0 /\ a[1] # 0
IsZero(a) == a[1] = 0 /\ a[2] # 0
Sign(a) == IF a = NegZero \/ a[1] < 0 THEN -1 ELSE 1

\* the fraction n/d (d > 0) in lowest terms
Norm(n, d) ==
  IF n = 0 THEN PosZero
  ELSE LET g == GCD(Abs(n), d) IN <<n \div g, d \div g>>

FromInt(n) == <<n, 1>>

FNeg(a) ==
  IF IsNaN(a) THEN NaN
  ELSE IF IsZero(a) THEN (IF a = NegZero THEN PosZero ELSE NegZero)
  ELSE <<-a[1], a[2]>>

FAdd(a, b) ==
  IF IsNaN(a) \/ IsNaN(b) THEN NaN
  ELSE IF IsInf(a) THEN (IF IsInf(b) /\ b # a THEN NaN ELSE a)
  ELSE IF IsInf(b) THEN b
  ELSE IF IsZero(a) /\ IsZero(b)
         THEN (IF a = NegZero /\ b = NegZero THEN NegZero ELSE PosZero)
  ELSE Norm(a[1] * Abs(b[2]) + b[1] * Abs(a[2]), Abs(a[2]) * Abs(b[2]))

FSub(a, b) == FAdd(a, FNeg(b))

FMul(a, b) ==
  IF IsNaN(a) \/ IsNaN(b) THEN NaN
  ELSE IF (IsInf(a) /\ IsZero(b)) \/ (IsZero(a) /\ IsInf(b)) THEN NaN
  ELSE IF IsInf(a) \/ IsInf(b) THEN <<Sign(a) * Sign(b), 0>>
  ELSE IF IsZero(a) \/ IsZero(b) THEN <<0, Sign(a) * Sign(b)>>
  ELSE Norm(a[1] * b[1], a[2] * b[2])

FDiv(a, b) ==
  IF IsNaN(a) \/ IsNaN(b) THEN NaN
  ELSE IF (IsInf(a) /\ IsInf(b)) \/ (IsZero(a) /\ IsZero(b)) THEN NaN
  ELSE IF IsInf(a) \/ IsZero(b) THEN <<Sign(a) * Sign(b), 0>>
  ELSE IF IsInf(b) \/ IsZero(a) THEN <<0, Sign(a) * Sign(b)>>
  ELSE Norm(Sign(a) * Sign(b) * Abs(a[1]) * b[2], a[2] * Abs(b[1]))

FLess(a, b) ==
  IF IsNaN(a) \/ IsNaN(b) THEN FALSE
  ELSE IF a = PosInf \/ b = NegInf THEN FALSE
  ELSE IF a = NegInf \/ b = PosInf THEN TRUE
  ELSE a[1] * Abs(b[2]) < b[1] * Abs(a[2])

\* bool converted to float
FromBool(p) == IF p THEN FromInt(1) ELSE PosZero

(***************************************************************************)
(* Token                                                                   *)
(***************************************************************************)
TokenType == {"unknown", "leftBracket", "rightBracket", "comma", "number",
              "keyword", "identifier", "operation"}

Token(type, value) == [type |-> type, value |-> value]

NumberToken(n) == Token("number", FromInt(n))
OperationToken(ch) == Token("operation", ch)

OperationChars == {"+", "-", "/", "*", "<", ">"}

(***************************************************************************)
(* AST nodes                                                               *)
(***************************************************************************)
NullNode == [kind |-> "null"]
NoOper == "none"
Thrown == "thrown"

Number(value) == [kind |-> "Number", value |-> value]

BinaryOperation(op, leftPtr, rightPtr) ==
  [kind |-> "BinaryOperation", operation |-> op, left |-> leftPtr, right |-> rightPtr]

operationFromChar(tokenType) ==
  CASE tokenType = "+" -> "Plus"
    [] tokenType = "-" -> "Minus"
    [] tokenType = "/" -> "Divide"
    [] tokenType = "*" -> "Multiply"
    [] tokenType = "<" -> "Less"
    [] tokenType = ">" -> "Greater"
    [] OTHER -> Thrown

DigitChars == <<"0", "1", "2", "3", "4", "5", "6", "7", "8", "9">>

RECURSIVE DigitsOf(_)
DigitsOf(n) ==
  IF n < 10 THEN <<DigitChars[n + 1]>>
  ELSE DigitsOf(n \div 10) \o <<DigitChars[(n % 10) + 1]>>

\* std::to_string(int)
IntToString(n) == IF n < 0 THEN <<"-">> \o DigitsOf(-n) ELSE DigitsOf(n)

\* Number::toString for a finite value >= 0: an integer prints without a
\* fraction, anything else as "%f" (six decimals)
NumberToString(value) ==
  LET n == value[1]
      d == Abs(value[2])
      whole == n \div d
      rest == n - whole * d
      micro == (rest * 1000000 + d \div 2) \div d
      frac == DigitsOf(1000000 + (micro % 1000000))
  IN IF rest * 10000000 < d
       THEN IntToString(whole)
       ELSE IntToString(whole + micro \div 1000000) \o <<".">> \o SubSeq(frac, 2, 7)

OperChar(operation) ==
  CASE operation = "Plus" -> "+"
    [] operation = "Minus" -> "-"
    [] operation = "Divide" -> "/"
    [] operation = "Multiply" -> "*"
    [] operation = "Greater" -> ">"
    [] operation = "Less" -> "<"

\* Node::toString; a BinaryOperation asserts both children, so this is only
\* defined on trees without a null child
RECURSIVE toString(_)
toString(node) ==
  CASE node.kind = "Number" -> NumberToString(node.value)
    [] node.kind = "BinaryOperation" ->
         toString(node.left) \o <<OperChar(node.operation)>> \o toString(node.right)

ApplyOperation(operation, leftVal, rightVal) ==
  CASE operation = "Plus" -> FAdd(leftVal, rightVal)
    [] operation = "Minus" -> FSub(leftVal, rightVal)
    [] operation = "Divide" -> FDiv(leftVal, rightVal)
    [] operation = "Multiply" -> FMul(leftVal, rightVal)
    [] operation = "Greater" -> FromBool(FLess(rightVal, leftVal))
    [] operation = "Less" -> FromBool(FLess(leftVal, rightVal))

\* Node::evaluate; like toString only defined without a null child.  Every
\* evaluate returns a value, so the has_value test of line 164 never throws.
RECURSIVE Evaluate(_)
Evaluate(node) ==
  CASE node.kind = "Number" -> node.value
    [] node.kind = "BinaryOperation" ->
         ApplyOperation(node.operation, Evaluate(node.left), Evaluate(node.right))

\* no BinaryOperation of the tree has an absent child
RECURSIVE ChildrenPresent(_)
ChildrenPresent(node) ==
  CASE node.kind = "Number" -> TRUE
    [] node.kind = "BinaryOperation" ->
         /\ node.left # NullNode
         /\ node.right # NullNode
         /\ ChildrenPresent(node.left)
         /\ ChildrenPresent(node.right)
    [] OTHER -> TRUE

(***************************************************************************)
(* simpleParse and Parse                                                   *)
(***************************************************************************)
At(i) == tokens[i + 1]

Returned(node) == [status |-> "returned", node |-> node]
Threw == [status |-> "thrown", node |-> NullNode]
Crashed == [status |-> "crashed", node |-> NullNode]
Pending == [status |-> "none", node |-> NullNode]

\* SimpleParseNumber with the operands of the new node swapped
SimpleParseNumberSwapped(state, token) ==
  LET numPtr == Number(token.value) IN
  IF state.oper = NoOper
    THEN IF state.leftOperand # NullNode
           THEN [state EXCEPT !.thrown = TRUE]
           ELSE [state EXCEPT !.leftOperand = numPtr]
    ELSE [state EXCEPT !.leftOperand = BinaryOperation(state.oper, numPtr, state.leftOperand),
                       !.oper = NoOper]

\* one round of simpleParse's loop on a number token: state is
\* [leftOperand, oper, thrown]
SimpleParseNumber(state, token) ==
  LET numPtr == Number(token.value) IN
  IF state.oper = NoOper
    THEN IF state.leftOperand # NullNode
           THEN [state EXCEPT !.thrown = TRUE]
           ELSE [state EXCEPT !.leftOperand = numPtr]
    ELSE [state EXCEPT !.leftOperand = BinaryOperation(state.oper, state.leftOperand, numPtr),
                       !.oper = NoOper]

\* one round of simpleParse's loop, by the token's type
SimpleParseToken(state, token) ==
  CASE token.type = "operation" ->
         IF operationFromChar(token.value) = Thrown
           THEN [state EXCEPT !.thrown = TRUE]
           ELSE [state EXCEPT !.oper = operationFromChar(token.value)]
    [] token.type = "number" -> SimpleParseNumber(state, token)
    [] OTHER -> [state EXCEPT !.thrown = TRUE]

RECURSIVE SimpleParseLoop(_, _, _, _)
SimpleParseLoop(toks, begin, end, state) ==
  IF state.thrown \/ begin = end THEN state
  ELSE SimpleParseLoop(toks, begin + 1, end, SimpleParseToken(state, toks[begin + 1]))

\* simpleParse(begin, end) for 0 <= begin <= end <= Len(toks): the call's outcome
simpleParse(toks, begin, end) ==
  LET final == SimpleParseLoop(toks, begin, end,
                 [leftOperand |-> NullNode, oper |-> NoOper, thrown |-> FALSE])
  IN IF final.thrown THEN Threw ELSE Returned(final.leftOperand)

IsFirstPriority(token) ==
  token.type = "operation" /\ token.value \in {"/", "*"}

\* std::find_if(from, end, isFirstPriority) over toks, as an offset
RECURSIVE FindFirstPriority(_, _)
FindFirstPriority(toks, from) ==
  IF from >= Len(toks) THEN Len(toks)
  ELSE IF IsFirstPriority(toks[from + 1]) THEN from
  ELSE FindFirstPriority(toks, from + 1)

end == Len(tokens)
firstPriorityPos == FindFirstPriority(tokens, lastFirstPriorityPos + 1)

\* the offsets find_if dereferences
FindDerefs == (lastFirstPriorityPos + 1) .. Min(firstPriorityPos, end - 1)
FindRange == <<lastFirstPriorityPos + 1, end>>

Finish(res) ==
  /\ pc' = "done"
  /\ result' = res
  /\ UNCHANGED <<loc, curr, lexemes, tokens, lastFirstPriorityPos, currentState, currentOper>>

\* while (lastFirstPriorityPos != end) is false: return currentState
ParseLoopExit ==
  /\ pc = "parse"
  /\ lastFirstPriorityPos = end
  /\ Finish(Returned(currentState))
  /\ UNCHANGED <<derefs, ranges>>

\* currentOper.value() joins the tree so far with a right operand
JoinPending(rightOutcome) ==
  IF rightOutcome.status # "returned" \/ currentOper = NoOper THEN Threw
  ELSE Returned(BinaryOperation(currentOper, currentState, rightOutcome.node))

\* what Parse returns once no '*' or '/' is left
TailOutcome(toks, last, state) ==
  IF Len(toks) - last <= 2 THEN Returned(state)
  ELSE IF state = NullNode THEN simpleParse(toks, 0, Len(toks))
  ELSE JoinPending(simpleParse(toks, last + 3, Len(toks)))

TailRanges(toks, last, state) ==
  IF Len(toks) - last <= 2 THEN {}
  ELSE IF state = NullNode THEN {<<0, Len(toks)>>}
  ELSE {<<last + 3, Len(toks)>>}

\* no '*' or '/' after lastFirstPriorityPos
ParseTail ==
  /\ pc = "parse"
  /\ lastFirstPriorityPos # end
  /\ firstPriorityPos = end
  /\ Finish(TailOutcome(tokens, lastFirstPriorityPos, currentState))
  /\ derefs' = derefs \cup FindDerefs
  /\ ranges' = ranges \cup {FindRange} \cup TailRanges(tokens, lastFirstPriorityPos, currentState)

\* a '*' or '/' that is the first or the last token
ParseUnexpectedOperation ==
  /\ pc = "parse"
  /\ lastFirstPriorityPos # end
  /\ firstPriorityPos # end
  /\ firstPriorityPos = 0 \/ firstPriorityPos + 1 = end
  /\ Finish(Threw)
  /\ derefs' = derefs \cup FindDerefs
  /\ ranges' = ranges \cup {FindRange}

\* extractNumber(iter) succeeds
IsNumber(token) == token.type = "number"

\* lines 307-351 of Parse for the '*' or '/' at offset p: the new
\* currentState, or how the call ends.  before is what the read at offset
\* p - 2 yields when that offset lies before begin(), and wild how walking
\* the range [begin(), begin() - 1) ends once it has left the vector.
PriorityTree(toks, state, oper, p, before, wild) ==
  LET leftTok == toks[p]
      rightTok == toks[p + 2]
      operPtr == BinaryOperation(operationFromChar(toks[p + 1].value),
                                 Number(leftTok.value), Number(rightTok.value))
      leftOperationTok == IF p - 2 >= 0 THEN toks[p - 1] ELSE before
      leftOperand == IF p - 2 >= 0 THEN simpleParse(toks, 0, p - 2)
                     ELSE IF simpleParse(toks, 0, Len(toks)).status = "thrown" THEN Threw
                     ELSE wild
      leftOperation == operationFromChar(leftOperationTok.value)
      subTreeHead == BinaryOperation(leftOperation, leftOperand.node, operPtr)
  IN IF ~IsNumber(leftTok) \/ ~IsNumber(rightTok) THEN Threw
     ELSE IF p - 2 = 0 THEN Returned(operPtr)
     ELSE IF leftOperationTok.type # "operation" THEN Threw
     ELSE IF leftOperand.status # "returned" THEN leftOperand
     ELSE IF leftOperation = Thrown THEN Threw
     ELSE IF state = NullNode THEN Returned(subTreeHead)
     ELSE IF oper = NoOper THEN Threw
     ELSE Returned(BinaryOperation(oper, state, subTreeHead))

\* lines 353-360: the operator after the triple becomes the pending one
FollowingOper(toks, oper, p) ==
  IF p + 2 = Len(toks) THEN oper
  ELSE IF toks[p + 3].type # "operation" THEN Thrown
  ELSE operationFromChar(toks[p + 3].value)

\* the offsets the loop body dereferences, up to the throw if there is one
PriorityDerefs(toks, p, tree) ==
  {p - 1}
    \cup (IF IsNumber(toks[p]) THEN {p + 1} ELSE {})
    \cup (IF IsNumber(toks[p]) /\ IsNumber(toks[p + 2]) THEN {p} ELSE {})
    \cup (IF IsNumber(toks[p]) /\ IsNumber(toks[p + 2]) /\ p - 2 # 0 THEN {p - 2} ELSE {})
    \cup (IF tree.status = "returned" /\ p + 2 # Len(toks) THEN {p + 2} ELSE {})

\* the range given to simpleParse at line 335, when that line is reached
PriorityRanges(toks, p, before) ==
  IF IsNumber(toks[p]) /\ IsNumber(toks[p + 2]) /\ p - 2 # 0
       /\ (IF p - 2 >= 0 THEN toks[p - 1] ELSE before).type = "operation"
    THEN {<<0, p - 2>>}
    ELSE {}

\* what a read before begin() may yield: any token at all
GarbageTokens ==
  {NumberToken(1), OperationToken("+"), OperationToken("*"), Token("unknown", "#")}

\* a '*' or '/' with a token on both sides
ParsePriority ==
  /\ pc = "parse"
  /\ lastFirstPriorityPos # end
  /\ firstPriorityPos # end
  /\ ~(firstPriorityPos = 0 \/ firstPriorityPos + 1 = end)
  /\ \E before \in (IF firstPriorityPos - 2 < 0 THEN GarbageTokens ELSE {At(0)}),
        wild \in (IF firstPriorityPos - 2 < 0 THEN {Threw, Crashed} ELSE {Threw}) :
       LET p == firstPriorityPos
           tree == PriorityTree(tokens, currentState, currentOper, p, before, wild)
           oper == FollowingOper(tokens, currentOper, p)
       IN /\ IF tree.status # "returned"
               THEN /\ pc' = "done"
                    /\ result' = tree
                    /\ UNCHANGED <<lastFirstPriorityPos, currentState, currentOper>>
               ELSE IF oper = Thrown
               THEN /\ pc' = "done"
                    /\ result' = Threw
                    /\ UNCHANGED <<lastFirstPriorityPos, currentState, currentOper>>
               ELSE /\ lastFirstPriorityPos' = p
                    /\ currentState' = tree.node
                    /\ currentOper' = oper
                    /\ UNCHANGED <<pc, result>>
          /\ derefs' = derefs \cup FindDerefs \cup PriorityDerefs(tokens, p, tree)
          /\ ranges' = ranges \cup {FindRange} \cup PriorityRanges(tokens, p, before)
  /\ UNCHANGED <<loc, curr, lexemes, tokens>>

(***************************************************************************)
(* Inputs of Parse                                                         *)
(***************************************************************************)
LiteralValues == {1, 2}
NumberTokens == {NumberToken(n) : n \in LiteralValues}
OperationTokens == {OperationToken(ch) : ch \in OperationChars}
OtherTokens ==
  {Token("unknown", "#"), Token("leftBracket", "("), Token("rightBracket", ")"),
   Token("comma", ","), Token("keyword", <<"a">>), Token("identifier", <<"i", "f">>)}
TokenUniverse == NumberTokens \cup OperationTokens \cup OtherTokens

SeqsUpTo(S, n) == UNION {[1 .. k -> S] : k \in 0 .. n}

\* number (op number)* with k operators
Chains(k) ==
  {[i \in 1 .. 2 * k + 1 |-> IF i % 2 = 1 THEN nums[(i + 1) \div 2] ELSE ops[i \div 2]] :
     nums \in [1 .. k + 1 -> NumberTokens], ops \in [1 .. k -> OperationTokens]}

\* the token vector of an expression written as <<1, "+", 2, ...>>
Expression(parts) ==
  [i \in 1 .. Len(parts) |->
     IF i % 2 = 1 THEN NumberToken(parts[i]) ELSE OperationToken(parts[i])]

\* the expressions of the repository's parser tests
TestExpressions ==
  {Expression(<<2, "+", 2>>),
   Expression(<<2, "+", 2, "+", 2>>),
   Expression(<<1, "+", 2, "*", 3>>),
   Expression(<<1, "+", 2, "*", 3, "-", 4, "+", 5, "*", 6>>),
   Expression(<<1, "+", 2, "*", 3, "-", 4, "+", 5, "*", 6, "-", 7>>)}

ParseStart(input) ==
  /\ tokens \in input
  /\ lastFirstPriorityPos = 0
  /\ currentState = NullNode
  /\ currentOper = NoOper
  /\ derefs = {}
  /\ ranges = {}
  /\ pc = "parse"
  /\ result = Pending
  /\ loc = <<>>
  /\ curr = 0
  /\ lexemes = <<>>

\* Parse on any token vector
Init == ParseStart(SeqsUpTo(TokenUniverse, MaxLen))
Next == ParseLoopExit \/ ParseTail \/ ParseUnexpectedOperation \/ ParsePriority
Spec == Init /\ [][Next]_vars

\* Parse on the vectors number (op number)*
InitWellFormed ==
  \E k \in 0 .. MaxOps + 1 :
    ParseStart(IF k <= MaxOps THEN Chains(k) ELSE TestExpressions)
NextWellFormed == ParseTail \/ ParsePriority
SpecWellFormed == InitWellFormed /\ [][NextWellFormed]_vars

(***************************************************************************)
(* Properties of Parse                                                     *)
(***************************************************************************)
Done == pc = "done"

\* number (op number)*
WellFormed(toks) ==
  /\ Len(toks) % 2 = 1
  /\ \A i \in 1 .. Len(toks) :
       toks[i].type = (IF i % 2 = 1 THEN "number" ELSE "operation")

\* the tokens written one after another
RECURSIVE Render(_)
Render(toks) ==
  IF toks = <<>> THEN <<>>
  ELSE (IF Head(toks).type = "number" THEN NumberToString(Head(toks).value)
        ELSE <<Head(toks).value>>) \o Render(Tail(toks))

Accepted == Done /\ result.status = "returned" /\ result.node # NullNode

\* C1: a well-formed expression that Parse accepts is rendered by toString()
\* as exactly its own numbers and operators, in order.
RoundTrip ==
  (Accepted /\ WellFormed(tokens)) =>
     /\ ChildrenPresent(result.node)
     /\ toString(result.node) = Render(tokens)

\* the product of the factors that start at index i (a number): [value, next]
RECURSIVE ReferenceTerm(_, _, _)
ReferenceTerm(toks, i, acc) ==
  IF i + 1 <= Len(toks) /\ IsFirstPriority(toks[i + 1])
    THEN ReferenceTerm(toks, i + 2,
           ApplyOperation(operationFromChar(toks[i + 1].value), acc, toks[i + 2].value))
    ELSE [value |-> acc, next |-> i + 1]

\* the terms from index i on (an operator of the low tier), joined left to right
RECURSIVE ReferenceSum(_, _, _)
ReferenceSum(toks, i, acc) ==
  IF i > Len(toks) THEN acc
  ELSE LET term == ReferenceTerm(toks, i + 1, toks[i + 1].value)
       IN ReferenceSum(toks, term.next,
            ApplyOperation(operationFromChar(toks[i].value), acc, term.value))

\* the value of a well-formed expression with * and / binding tighter
ReferenceValue(toks) ==
  LET term == ReferenceTerm(toks, 1, toks[1].value)
  IN ReferenceSum(toks, term.next, term.value)

\* C2: evaluate() on the tree Parse returns for a well-formed expression
\* gives the value under the usual precedence, left to right within a tier.
Precedence ==
  (Accepted /\ WellFormed(tokens) /\ ChildrenPresent(result.node)) =>
     Evaluate(result.node) = ReferenceValue(tokens)

\* C3: every well-formed expression is parsed without error into a present root.
WellFormedParses ==
  (Done /\ WellFormed(tokens)) => (result.status = "returned" /\ result.node # NullNode)

AdjacentNumbers(toks) ==
  \E i \in 1 .. Len(toks) - 1 : toks[i].type = "number" /\ toks[i + 1].type = "number"

\* C4: Parse raises an error on every vector with two adjacent number tokens.
AdjacentNumbersRejected ==
  (Done /\ AdjacentNumbers(tokens)) => result.status = "thrown"

DanglingOperator(toks) ==
  /\ toks # <<>>
  /\ toks[1].type = "operation" \/ toks[Len(toks)].type = "operation"

\* C5: Parse raises an error on every vector that starts or ends with an operator.
DanglingOperatorRejected ==
  (Done /\ DanglingOperator(tokens)) => result.status = "thrown"

\* C6: in every tree Parse returns each BinaryOperation has both children.
ChildrenAlwaysPresent ==
  (Done /\ result.status = "returned") => ChildrenPresent(result.node)

ForeignToken(toks) ==
  \E i \in 1 .. Len(toks) : toks[i].type \notin {"number", "operation"}

\* C7: Parse raises an error on every vector holding a token that is neither
\* a number nor an operation.
ForeignTokenRejected ==
  (Done /\ ForeignToken(tokens)) => result.status = "thrown"

LowPriorityOnly(toks) ==
  \A i \in 1 .. Len(toks) : ~IsFirstPriority(toks[i])

\* the tree that nests everything before the last operator as its left child
RECURSIVE LeftAssociated(_)
LeftAssociated(toks) ==
  IF Len(toks) = 1 THEN Number(toks[1].value)
  ELSE BinaryOperation(operationFromChar(toks[Len(toks) - 1].value),
                       LeftAssociated(SubSeq(toks, 1, Len(toks) - 2)),
                       Number(toks[Len(toks)].value))

\* C9: a well-formed chain of two or more numbers joined by + - > < only
\* parses to the fully left-associated tree.
LowPriorityChainLeftAssociated ==
  (Done /\ WellFormed(tokens) /\ Len(tokens) >= 3 /\ LowPriorityOnly(tokens)) =>
     result = Returned(LeftAssociated(tokens))

\* a chain of three operators of the low tier was parsed
LowPriorityChainParsed ==
  /\ Done
  /\ WellFormed(tokens) /\ Len(tokens) = 7 /\ LowPriorityOnly(tokens)
  /\ result.status = "returned"
  /\ result.node.left.left.kind = "BinaryOperation"

\* C10: every offset Parse dereferences lies in [0, size) and every range it
\* passes on lies in [0, size] with begin <= end.
ReadsInsideVector ==
  /\ derefs \subseteq 0 .. (Len(tokens) - 1)
  /\ \A r \in ranges : 0 <= r[1] /\ r[1] <= r[2] /\ r[2] <= Len(tokens)

(***************************************************************************)
(* Tokenizer                                                               *)
(***************************************************************************)
SpaceChars == {" ", "\t", "\n", "\r", "\f"}
DigitSet == {DigitChars[k] : k \in 1 .. 10}
Letters ==
  {"a", "b", "c", "d", "e", "f", "g", "h", "i", "j", "k", "l", "m", "n", "o", "p", "q",
   "r", "s", "t", "u", "v", "w", "x", "y", "z", "A", "B", "C", "D", "E", "F", "G", "H",
   "I", "J", "K", "L", "M", "N", "O", "P", "Q", "R", "S", "T", "U", "V", "W", "X", "Y", "Z"}

isspace(ch) == ch \in SpaceChars
isalpha(ch) == ch \in Letters
isdigit(ch) == ch \in DigitSet
isalnum(ch) == isalpha(ch) \/ isdigit(ch)

KEYWORDS == {<<"f", "u", "n", "c">>, <<"i", "f">>, <<"e", "l", "s", "e">>}

\* std::find_if_not(current, end, isspace), as an offset into text
RECURSIVE skipSpaces(_, _)
skipSpaces(text, current) ==
  IF current < Len(text) /\ isspace(text[current + 1])
    THEN skipSpaces(text, current + 1)
    ELSE current

\* std::find_if_not(current, end, lexemAcceptorFn)
RECURSIVE LexemEnd(_, _)
LexemEnd(text, current) ==
  IF current < Len(text) /\ (isalnum(text[current + 1]) \/ text[current + 1] = "_")
    THEN LexemEnd(text, current + 1)
    ELSE current

RECURSIVE DigitsEnd(_, _)
DigitsEnd(text, current) ==
  IF current < Len(text) /\ isdigit(text[current + 1])
    THEN DigitsEnd(text, current + 1)
    ELSE current

DigitValue(ch) == CHOOSE k \in 0 .. 9 : DigitChars[k + 1] = ch

\* the number written by the digits text[from + 1 .. to], continuing from acc
RECURSIVE DigitsValue(_, _, _, _)
DigitsValue(text, from, to, acc) ==
  IF from >= to THEN acc
  ELSE DigitsValue(text, from + 1, to, acc * 10 + DigitValue(text[from + 1]))

RECURSIVE Pow10(_)
Pow10(k) == IF k = 0 THEN 1 ELSE 10 * Pow10(k - 1)

\* the mantissa of std::from_chars at a digit: digits and an optional fraction
ScanMantissa(text, current) ==
  LET intEnd == DigitsEnd(text, current) IN
  IF intEnd < Len(text) /\ text[intEnd + 1] = "."
    THEN LET fracEnd == DigitsEnd(text, intEnd + 1)
         IN [last |-> fracEnd, fracLen |-> fracEnd - (intEnd + 1),
             digits |-> DigitsValue(text, intEnd + 1, fracEnd,
                          DigitsValue(text, current, intEnd, 0))]
    ELSE [last |-> intEnd, fracLen |-> 0, digits |-> DigitsValue(text, current, intEnd, 0)]

\* the exponent of std::from_chars from offset at: e or E, an optional sign
\* and digits; it is taken only when a digit is there
ScanExponent(text, at) ==
  LET hasE == at < Len(text) /\ text[at + 1] \in {"e", "E"}
      hasSign == at + 1 < Len(text) /\ text[at + 2] \in {"+", "-"}
      expBegin == IF hasSign THEN at + 2 ELSE at + 1
      expEnd == DigitsEnd(text, expBegin)
  IN IF hasE /\ expEnd > expBegin
       THEN [last |-> expEnd,
             exp |-> IF hasSign /\ text[at + 2] = "-"
                       THEN -DigitsValue(text, expBegin, expEnd, 0)
                       ELSE DigitsValue(text, expBegin, expEnd, 0)]
       ELSE [last |-> at, exp |-> 0]

\* digits * 10^exp is outside double: std::errc::result_out_of_range, taken
\* by the power of ten of the leading digit (above 1e308 or below 1e-324;
\* the band between DBL_MAX and 1e309 is not told apart)
OutOfRange(digits, exp) ==
  digits # 0 /\ (Len(DigitsOf(digits)) - 1 + exp > 308
                   \/ Len(DigitsOf(digits)) - 1 + exp < -324)

FromCharsResult(digits, exp, valuePtr) ==
  IF OutOfRange(digits, exp)
    THEN [valuePtr |-> valuePtr, err |-> TRUE, value |-> NaN]
    ELSE [valuePtr |-> valuePtr, err |-> FALSE,
          value |-> IF exp >= 0 THEN Norm(digits * Pow10(exp), 1)
                    ELSE Norm(digits, Pow10(-exp))]

\* the exponent part follows the mantissa m
FromCharsExponent(m, e) == FromCharsResult(m.digits, e.exp - m.fracLen, e.last)

\* std::from_chars(current, end, value) at a digit
FromCharsMantissa(text, m) == FromCharsExponent(m, ScanExponent(text, m.last))

FromChars(text, current) == FromCharsMantissa(text, ScanMantissa(text, current))

\* CharTokenType with the case ',' lost to the default
CharTokenTypeNoComma(ch) ==
  CASE ch = "(" -> "leftBracket"
    [] ch = ")" -> "rightBracket"
    [] ch \in {"+", "-", "/", "*", "<", ">"} -> "operation"
    [] OTHER -> "unknown"

\* the switch of parseToken: the type of a single-character token
CharTokenType(ch) ==
  CASE ch = "(" -> "leftBracket"
    [] ch = ")" -> "rightBracket"
    [] ch \in {"+", "-", "/", "*", "<", ">"} -> "operation"
    [] ch = "," -> "comma"
    [] OTHER -> "unknown"

NoToken == [type |-> "nullopt"]

\* Tokenizer::parseToken: the token (NoToken = std::nullopt, NoToken with
\* threw = the number parsing exception), the offset where its lexeme starts
\* and the cursor afterwards
parseToken(text, current) ==
  LET first == skipSpaces(text, current)
      ch == text[first + 1]
      lexemEnd == LexemEnd(text, first)
      lexem == SubSeq(text, first + 1, lexemEnd)
      number == FromChars(text, first)
  IN IF first = Len(text)
       THEN [token |-> NoToken, threw |-> FALSE, first |-> first, current |-> first]
     ELSE IF isalpha(ch)
       THEN [token |-> Token(IF lexem \notin KEYWORDS THEN "keyword" ELSE "identifier", lexem),
             threw |-> FALSE, first |-> first, current |-> lexemEnd]
     ELSE IF isdigit(ch)
       THEN IF number.err
              THEN [token |-> NoToken, threw |-> TRUE, first |-> first, current |-> first]
              ELSE [token |-> Token("number", number.value),
                    threw |-> FALSE, first |-> first, current |-> number.valuePtr]
     ELSE [token |-> Token(CharTokenType(ch), ch),
           threw |-> FALSE, first |-> first, current |-> first + 1]

\* Tokenize's loop: parseToken gave a token, which is pushed back
TokenizePush ==
  /\ pc = "tokenize"
  /\ LET parsed == parseToken(loc, curr)
     IN /\ parsed.token # NoToken
        /\ tokens' = Append(tokens, parsed.token)
        /\ curr' = parsed.current
        /\ lexemes' = Append(lexemes, <<parsed.first, parsed.current>>)
  /\ UNCHANGED <<loc, lastFirstPriorityPos, currentState, currentOper, derefs, ranges,
                 pc, result>>

\* Tokenize's loop: parseToken gave std::nullopt, the vector is returned
TokenizeReturn ==
  /\ pc = "tokenize"
  /\ LET parsed == parseToken(loc, curr)
     IN /\ parsed.token = NoToken
        /\ ~parsed.threw
        /\ curr' = parsed.current
  /\ pc' = "done"
  /\ result' = Returned(NullNode)
  /\ UNCHANGED <<loc, tokens, lexemes, lastFirstPriorityPos, currentState, currentOper,
                 derefs, ranges>>

\* Tokenize's loop: parseToken threw "NUMBER PARSING EXCEPTION"
TokenizeThrow ==
  /\ pc = "tokenize"
  /\ LET parsed == parseToken(loc, curr)
     IN /\ parsed.threw
        /\ curr' = parsed.current
  /\ pc' = "done"
  /\ result' = Threw
  /\ UNCHANGED <<loc, tokens, lexemes, lastFirstPriorityPos, currentState, currentOper,
                 derefs, ranges>>

(***************************************************************************)
(* Inputs of Tokenize                                                      *)
(***************************************************************************)
\* the characters texts are drawn from (ASCII: one space, digits, letters,
\* every single-character lexeme, and characters the switch does not know)
SourceChars ==
  {" ", "1", "2", ".", "i", "f", "_", "(", ")", ",", "+", "-", "/", "*", "<", ">", "#"}

TestSources ==
  {<<"f", "u", "n", "c", "(", "1", ",", "2", ")">>,
   <<"1", "e", "2", "+", "2", "e", "-", "1">>,
   <<"1", "e", "+", " ", "e", "l", "s", "e", "_", "1", "\t", "@">>,
   <<"1", "0", ".", "2", "5", ".", "5", "\n">>,
   <<"2", "*", "1", "e", "9", "9", "9">>}

InitTokenize ==
  /\ loc \in SeqsUpTo(SourceChars, MaxSrcLen) \cup TestSources
  /\ curr = 0
  /\ lexemes = <<>>
  /\ tokens = <<>>
  /\ lastFirstPriorityPos = 0
  /\ currentState = NullNode
  /\ currentOper = NoOper
  /\ derefs = {}
  /\ ranges = {}
  /\ pc = "tokenize"
  /\ result = Pending

NextTokenize == TokenizePush \/ TokenizeReturn \/ TokenizeThrow
SpecTokenize == InitTokenize /\ [][NextTokenize]_vars

(***************************************************************************)
(* Properties of Tokenize                                                  *)
(***************************************************************************)
AllSpaces(text, from, to) == \A i \in (from + 1) .. to : isspace(text[i])

\* the type the specification gives each single-character lexeme
SingleCharType ==
  [ch \in {"(", ")", ",", "+", "-", "/", "*", "<", ">"} |->
     CASE ch = "(" -> "leftBracket"
       [] ch = ")" -> "rightBracket"
       [] ch = "," -> "comma"
       [] OTHER -> "operation"]

\* lexeme k starts right after the whitespace that follows lexeme k - 1
LexemeInOrder(k) ==
  LET before == IF k = 1 THEN 0 ELSE lexemes[k - 1][2]
  IN /\ before <= lexemes[k][1]
     /\ lexemes[k][1] < lexemes[k][2]
     /\ lexemes[k][2] <= Len(loc)
     /\ AllSpaces(loc, before, lexemes[k][1])
     /\ ~isspace(loc[lexemes[k][1] + 1])

\* a lexeme that starts with neither a letter nor a digit is that one
\* character, typed by the table, or unknown when the table lacks it
LexemeClassified(k) ==
  LET ch == loc[lexemes[k][1] + 1]
  IN (~isalpha(ch) /\ ~isdigit(ch)) =>
       /\ lexemes[k][2] = lexemes[k][1] + 1
       /\ tokens[k] = Token(IF ch \in DOMAIN SingleCharType THEN SingleCharType[ch]
                            ELSE "unknown", ch)

\* C8: Tokenize emits one token per lexeme in source order, none for
\* whitespace, the typed single-character token for each of ( ) , + - / * < >,
\* an unknown token for any other character that is no letter or digit, and
\* returns only at the end of the input; "1+1" gives
\* [number 1, operation '+', number 1].
TokenPerLexeme ==
  /\ Len(tokens) = Len(lexemes)
  /\ \A k \in 1 .. Len(lexemes) : LexemeInOrder(k) /\ LexemeClassified(k)
  /\ (Done /\ result.status = "returned") =>
       /\ curr = Len(loc)
       /\ AllSpaces(loc, IF lexemes = <<>> THEN 0 ELSE lexemes[Len(lexemes)][2], Len(loc))
       /\ loc = <<"1", "+", "1">> =>
            tokens = <<NumberToken(1), OperationToken("+"), NumberToken(1)>>

\* an unknown character, then whitespace, then a single-character token
\* were scanned and Tokenize returned
UnknownThenMore ==
  /\ Done
  /\ result.status = "returned"
  /\ Len(tokens) >= 2
  /\ tokens[1].type = "unknown"
  /\ tokens[2].type \in {"operation", "comma", "leftBracket", "rightBracket"}
  /\ lexemes[2][1] > lexemes[1][2]

====
